---------------------------- MODULE Spec2Model ----------------------------
(***************************************************************************)
(* Interleaved pedestal finder of lstchain                                 *)
(* (src/lstchain/scripts/lstchain_find_pedestals.py): main() and           *)
(* find_pedestals() as one state machine.                                  *)
(*                                                                         *)
(* Numbers.  Times are integer ticks.  The phase grid                      *)
(* np.linspace(0, best_period, steps) has the points                       *)
(* k * best_period / (steps - 1), so every folded time of the phase loop   *)
(* is kept as an integer number of "subticks" (1 tick = Scale subticks,    *)
(* Scale = steps - 1).  A histogram edge j * range / nbins is compared     *)
(* with a value x as  x * nbins  against  j * range, which is exact.       *)
(* Floating-point rounding is not modelled.                                *)
(***************************************************************************)
EXTENDS Integers, Sequences, FiniteSets

VARIABLES
    pc,            \* position of main(): start, read, period, phase, window,
                   \* remove, report, write, done, failed
    err,           \* the exception that ended main(), or "none"
    written,       \* whether the output file pedestal_ids_Run*.h5 of the
                   \* sub-run being processed (or processed last) exists.
                   \* The list `files` is not kept: whether it has a next
                   \* file is decided when the loop asks for one, and every
                   \* sub-run has its own output file name (lines 83-85)
    run_number,    \* line 41
    table,         \* line 49: sequence of event records
    ffmask,        \* line 53
    pedmask,       \* line 56
    intensity,     \* lines 65-67 (NaN replaced by 0)
    timestamps,    \* find_pedestals argument: all_times[~ffmask]
    period_mean,   \* line 111, in ticks
    nbins,         \* line 122
    i,             \* position in period_step_range (line 128), 1-based
    phase,         \* position in the phase grid (line 144), 0-based
    max_peak,      \* lines 127, 133, 140, 149
    best_period,   \* line 136, in ticks (0 stands for None)
    best_phase,    \* line 150, in subticks
    best_contents, \* lines 135, 151
    best_bins,     \* lines 134, 152: upper end of the histogram range, subticks
    contents,      \* lines 130, 146: counts of the latest histogram
    bins,          \* lines 130, 146: upper end of the latest range, subticks
    tmod,          \* lines 129, 145, 154: folded times, subticks
    reads,         \* raw indices with which best_contents was read (161, 163)
    minval,        \* line 166, as numerator over nbins (edge * nbins)
    maxval,        \* line 167, as numerator over nbins
    mask           \* line 169: the value find_pedestals returns

vars == <<pc, err, written, run_number, table, ffmask, pedmask,
          intensity, timestamps, period_mean, nbins, i, phase, max_peak,
          best_period, best_phase, best_contents, best_bins, contents, bins,
          tmod, reads, minval, maxval, mask>>

(***************************************************************************)
(* Bounds of the model and scaled program constants                        *)
(***************************************************************************)
MaxEvents == 3          \* longest event table read

NaN == -1               \* the undefined feature value (np.isnan, line 67)

FlatFieldIntensity == 30000       \* 3e4, line 53
FlatFieldConcentration == 5       \* 0.005 in thousandths, line 54
RemovalBudget == 1      \* remove_indices[:10], line 73, scaled down
Steps == 3              \* steps = 1000, line 142, scaled down
AverageNEventsPerBin == 1         \* line 120
PeriodStepWidth == 2    \* period_step_width = 1e-7 s, line 112, in ticks

\* np.linspace(-50, 50, 101), line 113, scaled down to three points
period_step_range == <<-1, 0, 1>>

Scale == Steps - 1

RunNumbers == {2708, 2709}
Times == {3, 4}
Intensities == {NaN, 5, 40000}
Concentrations == {NaN, 1, 9}

Events == [dragon_time : Times, intensity : Intensities,
           concentration_pixel : Concentrations]

Tables == UNION {[1..n -> Events] : n \in 0..MaxEvents}

(***************************************************************************)
(* numpy and Python helpers                                                *)
(***************************************************************************)
Min(a, b) == IF a < b THEN a ELSE b

\* a comparison that is True as soon as one side is NaN
GtTrueOnNaN(a, b) == a = NaN \/ b = NaN \/ a > b

\* IEEE comparison: any comparison with NaN is False
Gt(a, b) == a # NaN /\ b # NaN /\ a > b

Lt(a, b) == a # NaN /\ b # NaN /\ a < b

\* seq[sel] with a boolean array sel (numpy boolean indexing)
RECURSIVE Compress(_, _)
Compress(seq, sel) ==
    IF seq = <<>> THEN <<>>
    ELSE (IF Head(sel) THEN <<Head(seq)>> ELSE <<>>)
         \o Compress(Tail(seq), Tail(sel))

Not(sel) == [k \in 1..Len(sel) |-> ~sel[k]]

CountTrue(sel) == Cardinality({k \in 1..Len(sel) : sel[k]})

\* number of True entries of sel at positions 1..k
Rank(sel, k) == Cardinality({j \in 1..k : sel[j]})

\* seq[j] for a Python index j (negative indices count from the end);
\* defined only when InRange(seq, j)
InRange(seq, j) == -Len(seq) <= j /\ j < Len(seq)

PyGet(seq, j) == seq[IF j < 0 THEN j + Len(seq) + 1 ELSE j + 1]

SeqMax(seq) ==
    IF seq = <<>> THEN 0
    ELSE CHOOSE m \in {seq[k] : k \in 1..Len(seq)} :
             \A k \in 1..Len(seq) : seq[k] <= m

SeqSum(seq) ==
    LET RECURSIVE S(_)
        S(k) == IF k = 0 THEN 0 ELSE seq[k] + S(k - 1)
    IN S(Len(seq))

\* np.argmax: 0-based index of the first maximum
ArgMax(seq) ==
    (CHOOSE k \in 1..Len(seq) :
        /\ seq[k] = SeqMax(seq)
        /\ \A j \in 1..(k - 1) : seq[j] < seq[k]) - 1

\* 0-based bin of x in a histogram of n equal bins over [0, hi]; the last
\* bin is closed on the right, values outside the range are not counted
\* (np.histogram with range=); -1 stands for "not counted"
BinOf(x, n, hi) ==
    IF x < 0 \/ x > hi THEN -1
    ELSE IF x = hi THEN n - 1
    ELSE (x * n) \div hi

\* np.histogram(xs, bins=n, range=(0, hi))[0]
Histogram(xs, n, hi) ==
    [b \in 1..n |-> Cardinality({k \in 1..Len(xs) : BinOf(xs[k], n, hi) = b - 1})]

\* a histogram routine that accepts any number of bins
HistogramNeverRaises(n) == FALSE

\* np.histogram raises ValueError when bins is an integer below 1
HistogramRaises(n) == n < 1

AllFalse(n) == [k \in 1..n |-> FALSE]


(***************************************************************************)
(* main(): the operations on whole arrays                                  *)
(***************************************************************************)
\* lines 45-47
ApproximateFrequency(rn) == IF rn > 2708 THEN 100 ELSE 50

\* line 111: period_mean = 1 / aprox_frequency, with 300 ticks to the second
PeriodMean(freq) == 300 \div freq

\* lines 53-54
FFMask(tb) ==
    [k \in 1..Len(tb) |->
        /\ Gt(tb[k].intensity, FlatFieldIntensity)
        /\ Lt(tb[k].concentration_pixel, FlatFieldConcentration)]

\* line 50
AllTimes(tb) == [k \in 1..Len(tb) |-> tb[k].dragon_time]

\* a mask that starts all True
InitialPedmaskTrue(tb) == [k \in 1..Len(tb) |-> TRUE]

\* line 56
InitialPedmask(tb) == AllFalse(Len(tb))

\* the values written to the leading positions, whatever sel selects
ScatterLeading(pm, sel, values) ==
    [k \in 1..Len(pm) |-> IF k <= Len(values) THEN values[k] ELSE pm[k]]

\* line 57: pm[sel] = values, values having one entry per True of sel
Scatter(pm, sel, values) ==
    [k \in 1..Len(pm) |-> IF sel[k] THEN values[Rank(sel, k)] ELSE pm[k]]

\* lines 65-67
ZeroedIntensity(tb) ==
    [k \in 1..Len(tb) |-> IF tb[k].intensity = NaN THEN 0 ELSE tb[k].intensity]

Permutations(n) ==
    {p \in [1..n -> 1..n] : \A a, b \in 1..n : a # b => p[a] # p[b]}

\* line 69, np.argsort(intensity): the default sort is not stable, so every
\* ascending order of the indices is a possible result
ArgSorts(v) ==
    {p \in Permutations(Len(v)) :
        \A a \in 1..(Len(v) - 1) : v[p[a]] <= v[p[a + 1]]}

\* the order left ascending
NoFlip(seq) == seq

\* line 69, np.flip
Flip(seq) == [k \in 1..Len(seq) |-> seq[Len(seq) + 1 - k]]

\* the budget spent on the brightest events of the table, selected or not
RemoveBrightestOfAll(pm, order) ==
    LET decreasing == Flip(order)
        cut == SubSeq(decreasing, 1, Min(RemovalBudget, Len(decreasing)))
        gone == {cut[k] : k \in 1..Len(cut)}
    IN [k \in 1..Len(pm) |-> pm[k] /\ k \notin gone]

\* lines 69-73, for one result `order` of np.argsort(intensity)
RemoveBrightest(pm, order) ==
    LET decreasing == Flip(order)
        pedmask2 == [k \in 1..Len(decreasing) |-> pm[decreasing[k]]]
        remove_indices == Compress(decreasing, pedmask2)
        cut == SubSeq(remove_indices, 1, Min(RemovalBudget, Len(remove_indices)))
        gone == {cut[k] : k \in 1..Len(cut)}
    IN [k \in 1..Len(pm) |-> pm[k] /\ k \notin gone]

\* line 81: np.nanmax of an empty selection raises ValueError
ReportRaises(pm) == CountTrue(pm) = 0

(***************************************************************************)
(* find_pedestals(): one iteration of each loop                            *)
(***************************************************************************)
\* line 136 (and 129): the trial period of grid position g
TrialPeriod(pmean, g) == pmean + period_step_range[g] * PeriodStepWidth

\* line 129: timestamps % period, in subticks
FoldPeriod(ts, period) == [k \in 1..Len(ts) |-> (ts[k] % period) * Scale]

\* a grid that starts one step late and ends one step beyond best_period
PhaseAtNextStep(period, k) == (k + 1) * period

\* line 144: np.linspace(0, best_period, steps)[k], in subticks
PhaseAt(period, k) == k * period

\* lines 145, 154: (timestamps + phase) % best_period, in subticks
FoldPhase(ts, ph, period) ==
    [k \in 1..Len(ts) |-> (ts[k] * Scale + ph) % (period * Scale)]

\* line 130: the upper end of the period loop's histogram range, subticks
PeriodHistRange(pmean, period) == pmean * Scale

\* line 146: the upper end of the phase loop's histogram range, subticks
PhaseHistRange(period) == period * Scale

\* the best kept unless the new peak is strictly higher
KeepsBestOnTie(peak, best) == peak <= best

\* lines 131-132 and 147-148: `continue` is taken, the best is kept
KeepsBest(peak, best) == peak < best

\* best_bins[j] * nbins for a Python index j: edge j of n equal bins on [0, hi]
EdgeTimesN(hi, n, j) == (IF j < 0 THEN j + n + 1 ELSE j) * hi

\* lines 156-164: the neighbour indices read, the exception raised if any,
\* and ifirst, ilast
WindowOf(counts) ==
    LET ibin == ArgMax(counts)
        left == PyGet(counts, ibin - 1) * 10 > PyGet(counts, ibin)
        ifirst == IF left THEN ibin - 1 ELSE ibin
        raises == ~InRange(counts, ibin + 1)
        right == ~raises /\ PyGet(counts, ibin + 1) * 10 > PyGet(counts, ibin)
        ilast == IF right THEN ibin + 1 ELSE ibin
    IN [ibin |-> ibin, ifirst |-> ifirst, ilast |-> ilast, raises |-> raises,
        reads |-> {ibin - 1, ibin + 1}]

\* line 169
WindowMask(tm, n, lo, hi) ==
    [k \in 1..Len(tm) |-> tm[k] * n > lo /\ tm[k] * n < hi]


(***************************************************************************)
(* The state machine                                                       *)
(***************************************************************************)
mainLocals == <<run_number, table, ffmask, pedmask, intensity>>

findLocals == <<timestamps, period_mean, nbins, i, phase, max_peak,
                best_period, best_phase, best_contents, best_bins, contents,
                bins, tmod, reads, minval, maxval, mask>>

\* the locals of one loop iteration before they are assigned; they are dead
\* once the iteration ends and are put back to these values there
NoLocals ==
    /\ run_number = 0 /\ table = <<>> /\ ffmask = <<>> /\ pedmask = <<>>
    /\ intensity = <<>> /\ timestamps = <<>> /\ period_mean = 0 /\ nbins = 0
    /\ i = 0 /\ phase = 0 /\ max_peak = 0 /\ best_period = 0
    /\ best_phase = 0 /\ best_contents = <<>> /\ best_bins = 0
    /\ contents = <<>> /\ bins = 0 /\ tmod = <<>> /\ reads = {}
    /\ minval = 0 /\ maxval = 0 /\ mask = <<>>

\* the same values, given to the locals of an iteration that has ended
ForgetLocals ==
    /\ run_number' = 0 /\ table' = <<>> /\ ffmask' = <<>> /\ pedmask' = <<>>
    /\ intensity' = <<>> /\ timestamps' = <<>> /\ period_mean' = 0
    /\ nbins' = 0 /\ i' = 0 /\ phase' = 0 /\ max_peak' = 0
    /\ best_period' = 0 /\ best_phase' = 0 /\ best_contents' = <<>>
    /\ best_bins' = 0 /\ contents' = <<>> /\ bins' = 0 /\ tmod' = <<>>
    /\ reads' = {} /\ minval' = 0 /\ maxval' = 0 /\ mask' = <<>>

Init ==
    /\ pc = "start"
    /\ err = "none"
    /\ written = FALSE
    /\ NoLocals

\* an exception leaves main(): nothing else changes
Raise(e) == pc' = "failed" /\ err' = e

\* lines 35-38, glob finds no file
StartNoFiles ==
    /\ pc = "start"
    /\ Raise("IOError")
    /\ UNCHANGED <<written, mainLocals, findLocals>>

\* lines 35-38, glob finds files
Start ==
    /\ pc = "start"
    /\ pc' = "read"
    /\ UNCHANGED <<err, written, mainLocals, findLocals>>

\* line 49 raises: the table cannot be read
ReadFails ==
    /\ pc = "read"
    /\ written' = FALSE
    /\ Raise("OSError")
    /\ UNCHANGED <<mainLocals, findLocals>>

\* lines 40-56, the call of line 57 and lines 111-127
ReadTable ==
    /\ pc = "read"
    /\ written' = FALSE
    /\ \E rn \in RunNumbers, tb \in Tables :
        /\ run_number' = rn
        /\ table' = tb
        /\ period_mean' = PeriodMean(ApproximateFrequency(rn))
    /\ ffmask' = FFMask(table')
    /\ pedmask' = InitialPedmask(table')
    /\ timestamps' = Compress(AllTimes(table'), Not(ffmask'))
    /\ nbins' = Len(timestamps') \div AverageNEventsPerBin
    /\ max_peak' = 0
    /\ i' = 1
    /\ pc' = "period"
    /\ UNCHANGED <<err, intensity, phase, best_period,
                   best_phase, best_contents, best_bins, contents, bins, tmod,
                   reads, minval, maxval, mask>>

\* lines 128-136, one iteration; after the last one, lines 140-142
PeriodStep ==
    /\ pc = "period"
    /\ LET period == TrialPeriod(period_mean, i)
           hi == PeriodHistRange(period_mean, period)
           last == i = Len(period_step_range)
       IN IF HistogramRaises(nbins)
          THEN /\ tmod' = FoldPeriod(timestamps, period)
               /\ Raise("ValueError")
               /\ UNCHANGED <<contents, bins, max_peak, best_bins,
                              best_contents, best_period, i>>
          ELSE /\ tmod' = FoldPeriod(timestamps, period)
               /\ contents' = Histogram(tmod', nbins, hi)
               /\ bins' = hi
               /\ IF KeepsBest(SeqMax(contents'), max_peak)
                  THEN UNCHANGED <<best_bins, best_contents, best_period>>
                  ELSE /\ best_bins' = bins'
                       /\ best_contents' = contents'
                       /\ best_period' = period
               /\ max_peak' = IF last THEN 0
                              ELSE IF KeepsBest(SeqMax(contents'), max_peak)
                                   THEN max_peak ELSE SeqMax(contents')
               /\ i' = IF last THEN i ELSE i + 1
               /\ pc' = IF last THEN "phase" ELSE "period"
               /\ err' = err
    /\ UNCHANGED <<written, mainLocals, timestamps, period_mean,
                   nbins, phase, best_phase, reads, minval, maxval, mask>>

\* lines 144-152, one iteration
PhaseStep ==
    /\ pc = "phase"
    /\ LET ph == PhaseAt(best_period, phase)
           hi == PhaseHistRange(best_period)
           last == phase = Steps - 1
       IN /\ tmod' = FoldPhase(timestamps, ph, best_period)
          /\ contents' = Histogram(tmod', nbins, hi)
          /\ bins' = hi
          /\ IF KeepsBest(SeqMax(contents'), max_peak)
             THEN UNCHANGED <<max_peak, best_phase, best_contents, best_bins>>
             ELSE /\ max_peak' = SeqMax(contents')
                  /\ best_phase' = ph
                  /\ best_contents' = contents'
                  /\ best_bins' = bins'
          /\ phase' = IF last THEN phase ELSE phase + 1
          /\ pc' = IF last THEN "window" ELSE "phase"
    /\ UNCHANGED <<err, written, mainLocals, timestamps,
                   period_mean, nbins, i, best_period, reads, minval, maxval,
                   mask>>

\* lines 154-169 and the assignment of line 57
Window ==
    /\ pc = "window"
    /\ LET w == WindowOf(best_contents)
       IN /\ tmod' = FoldPhase(timestamps, best_phase, best_period)
          /\ reads' = w.reads
          /\ IF w.raises
             THEN /\ Raise("IndexError")
                  /\ UNCHANGED <<minval, maxval, mask, pedmask>>
             ELSE /\ minval' = EdgeTimesN(best_bins, nbins, w.ifirst)
                  /\ maxval' = EdgeTimesN(best_bins, nbins, w.ilast + 1)
                  /\ mask' = WindowMask(tmod', nbins, minval', maxval')
                  /\ pedmask' = Scatter(pedmask, Not(ffmask), mask')
                  /\ pc' = "remove"
                  /\ err' = err
    /\ UNCHANGED <<written, run_number, table, ffmask, intensity,
                   timestamps, period_mean, nbins, i, phase, max_peak,
                   best_period, best_phase, best_contents, best_bins, contents,
                   bins>>

\* lines 65-73
Remove ==
    /\ pc = "remove"
    /\ intensity' = ZeroedIntensity(table)
    /\ \E order \in ArgSorts(intensity') :
        pedmask' = RemoveBrightest(pedmask, order)
    /\ pc' = "report"
    /\ UNCHANGED <<err, written, run_number, table, ffmask,
                   findLocals>>

\* the output file created before the statistics are printed
ReportAfterWriting ==
    /\ pc = "report"
    /\ written' = TRUE
    /\ IF ReportRaises(pedmask)
       THEN Raise("ValueError")
       ELSE pc' = "write" /\ err' = err
    /\ UNCHANGED <<mainLocals, findLocals>>

\* lines 75-81
Report ==
    /\ pc = "report"
    /\ IF ReportRaises(pedmask)
       THEN Raise("ValueError")
       ELSE pc' = "write" /\ err' = err
    /\ UNCHANGED <<written, mainLocals, findLocals>>

\* lines 82-86, and the loop of line 40 going on or ending
Write ==
    /\ pc = "write"
    /\ written' = TRUE
    /\ \E more \in BOOLEAN : pc' = IF more THEN "read" ELSE "done"
    /\ ForgetLocals
    /\ UNCHANGED err

Next ==
    \/ StartNoFiles
    \/ Start
    \/ ReadFails
    \/ ReadTable
    \/ PeriodStep
    \/ PhaseStep
    \/ Window
    \/ Remove
    \/ Report
    \/ Write

Spec == Init /\ [][Next]_vars


(***************************************************************************)
(* Properties                                                              *)
(***************************************************************************)
\* the pre-filter's "excluded" of spec 4.1, stated on one event record
Excluded(e) ==
    /\ e.intensity # NaN /\ e.intensity > FlatFieldIntensity
    /\ e.concentration_pixel # NaN
    /\ e.concentration_pixel < FlatFieldConcentration

Undefined(e) == e.intensity = NaN \/ e.concentration_pixel = NaN

CandidatePositions == {k \in 1..Len(table) : ~Excluded(table[k])}

\* find_pedestals has been called for the current table
InFindPedestals == i > 0

\* the mask has been scattered back (line 57 is done)
Scattered == pc \in {"remove", "report", "write"}

\* event k folded with the best period and phase lies strictly inside the
\* acceptance window
InWindow(k) ==
    LET x == (table[k].dragon_time * Scale + best_phase) % (best_period * Scale)
    IN x * nbins > minval /\ x * nbins < maxval

\* event k was True in pedmask when the contamination remover started
WasSelected(k) == ~ffmask[k] /\ mask[Rank(Not(ffmask), k)]

\* C1: every event the pre-filter excludes (intensity > 3e4 and
\* concentration_pixel < 0.005) is False in pedmask, after the scatter of
\* line 57 and after the contamination remover, and at every point before.
ExcludedNeverSelected ==
    /\ Len(pedmask) = Len(table)
    /\ \A k \in 1..Len(table) : Excluded(table[k]) => ~pedmask[k]

\* C1 witness: the remover has run, an excluded event is in the table and
\* another event is still selected
ExcludedBesideSelected ==
    /\ pc = "write"
    /\ \E k, j \in 1..Len(table) : Excluded(table[k]) /\ pedmask[j]

\* C2: once the mask is scattered back it has one entry per event of the
\* table, the value find_pedestals returns has one entry per candidate, and
\* entry k is about event k: before the remover runs it is True exactly when
\* event k is a candidate whose own folded time lies in the window, and after
\* it only then.
MaskAlignedWithTable ==
    Scattered =>
        /\ Len(pedmask) = Len(table)
        /\ Len(mask) = Cardinality(CandidatePositions)
        /\ \A k \in 1..Len(table) :
            /\ pedmask[k] => k \in CandidatePositions /\ InWindow(k)
            /\ pc = "remove" /\ k \in CandidatePositions /\ InWindow(k)
                   => pedmask[k]

\* C2 witness: an excluded event precedes two candidates of which exactly
\* one is selected, so positions in the candidate subset and in the table
\* differ
ScatterShiftsPositions ==
    /\ pc = "remove"
    /\ \E k, j, m \in 1..Len(table) :
        /\ k < j /\ j < m
        /\ Excluded(table[k])
        /\ ~Excluded(table[j]) /\ ~Excluded(table[m])
        /\ pedmask[j] # pedmask[m]

\* C4: when bin_count = floor(n_candidates / average_events_per_bin) < 1
\* (no candidate, in particular every event excluded), find_pedestals ends
\* in ValueError in the first iteration of the period loop: no mask is
\* returned, none is scattered, nothing is written.
TooFewCandidatesFails ==
    (InFindPedestals
     /\ Cardinality(CandidatePositions) \div AverageNEventsPerBin < 1)
        => /\ pc \in {"period", "failed"}
           /\ pc = "period" => i = 1
           /\ pc = "failed" => err = "ValueError"
           /\ mask = <<>> /\ best_contents = <<>> /\ ~written
           /\ \A k \in 1..Len(pedmask) : ~pedmask[k]

\* C4 witness: a non-empty table of excluded events only has failed
AllExcludedFailed ==
    /\ pc = "failed" /\ err = "ValueError"
    /\ Len(table) > 0
    /\ \A k \in 1..Len(table) : Excluded(table[k])

\* C8: an event whose intensity or concentration_pixel is NaN is not marked
\* in ffmask, and its time is in the timestamps passed to find_pedestals, at
\* its place among the candidates.
UndefinedStaysCandidate ==
    InFindPedestals =>
        \A k \in 1..Len(table) :
            Undefined(table[k]) =>
                /\ ~ffmask[k]
                /\ Rank(Not(ffmask), k) \in 1..Len(timestamps)
                /\ timestamps[Rank(Not(ffmask), k)] = table[k].dragon_time

\* C8 witness: find_pedestals runs on a table with an event of undefined
\* intensity and low concentration, and one of high intensity and undefined
\* concentration
UndefinedWithExtremeOther ==
    /\ pc = "phase"
    /\ \E k, j \in 1..Len(table) :
        /\ table[k].intensity = NaN
        /\ table[k].concentration_pixel # NaN
        /\ table[k].concentration_pixel < FlatFieldConcentration
        /\ table[j].concentration_pixel = NaN
        /\ table[j].intensity # NaN
        /\ table[j].intensity > FlatFieldIntensity

\* C9: the output file of a sub-run exists only when every stage of that
\* sub-run has completed (the loop is back at its top or has ended); in
\* particular it does not exist when main() has failed in that sub-run.
NoOutputUnlessCompleted ==
    /\ written => pc \in {"read", "done"}
    /\ pc = "failed" => ~written

\* C9 witness: the last stage before writing, the report of lines 75-81,
\* has failed after the search, the window and the remover completed
FailedInLastStage ==
    /\ pc = "failed" /\ err = "ValueError"
    /\ mask # <<>> /\ intensity # <<>>
    /\ ~written


\* the peak of the period loop's histogram at grid position g, and of the
\* phase loop's at grid position k (seq \o <<>> is seq: it makes TLC
\* enumerate the sequence once instead of at every use)
PeriodPeak(g) ==
    LET period == TrialPeriod(period_mean, g)
        folded == FoldPeriod(timestamps, period) \o <<>>
    IN SeqMax(Histogram(folded, nbins, PeriodHistRange(period_mean, period))
              \o <<>>)

PhasePeak(k) ==
    LET folded == FoldPhase(timestamps, PhaseAt(best_period, k), best_period)
                  \o <<>>
    IN SeqMax(Histogram(folded, nbins, PhaseHistRange(best_period)) \o <<>>)

PeriodGrid == 1..Len(period_step_range)

PhaseGrid == 0..(Steps - 1)

\* the grid positions whose peak is the highest of the grid
BestPeriodPositions ==
    LET peaks == [g \in PeriodGrid |-> PeriodPeak(g)] \o <<>>
    IN {g \in PeriodGrid : \A h \in PeriodGrid : peaks[h] <= peaks[g]}

BestPhasePositions ==
    LET peaks == [k \in 1..Steps |-> PhasePeak(k - 1)] \o <<>>
    IN {k \in PhaseGrid : \A h \in PhaseGrid : peaks[h + 1] <= peaks[k + 1]}

Lowest(S) == CHOOSE x \in S : \A y \in S : x <= y

Highest(S) == CHOOSE x \in S : \A y \in S : y <= x

PeriodLoopDone == pc \in {"phase", "window", "remove", "report", "write"}

PhaseLoopDone == pc \in {"window", "remove", "report", "write"}

\* C3 as claimed: the best is replaced only by a strictly higher peak, so
\* of the hypotheses with the highest peak the one scanned first is
\* returned, as best_period and as best_phase.
EarlierHypothesisWinsTies ==
    /\ PeriodLoopDone =>
        best_period = TrialPeriod(period_mean, Lowest(BestPeriodPositions))
    /\ PhaseLoopDone =>
        best_phase = PhaseAt(best_period, Lowest(BestPhasePositions))

\* C3 as amended: the best is kept only against a strictly lower peak, so
\* of the hypotheses with the highest peak the one scanned last is returned,
\* as best_period and as best_phase.
LaterHypothesisWinsTies ==
    /\ PeriodLoopDone =>
        best_period = TrialPeriod(period_mean, Highest(BestPeriodPositions))
    /\ PhaseLoopDone =>
        best_phase = PhaseAt(best_period, Highest(BestPhasePositions))

\* C3 witness: both loops have ended with a tie between a hypothesis that
\* is not the last of its grid and an earlier one
TiesInBothLoops ==
    /\ pc = "window"
    /\ \E g, h \in BestPeriodPositions : g < h /\ h < Len(period_step_range)
    /\ \E k, h \in BestPhasePositions : k < h /\ h < Steps - 1

\* C5 as claimed: the window selector reads best_contents only at neighbour
\* indices within 0..nbins-1 and completes, also for one bin.
NeighbourReadsInRange ==
    /\ \A j \in reads : 0 <= j /\ j < nbins
    /\ err # "IndexError"

\* C6: the contamination remover turns exactly min(budget, number of True
\* entries) entries of pedmask from True to False and changes no entry that
\* was False.
RemoverFlipsMinBudget ==
    [][pc = "remove" =>
        /\ Len(pedmask') = Len(pedmask)
        /\ \A k \in 1..Len(pedmask) : pedmask'[k] => pedmask[k]
        /\ CountTrue(pedmask) - CountTrue(pedmask')
               = Min(RemovalBudget, CountTrue(pedmask))]_vars

\* C6 witness: the remover has run on a mask with more True entries than
\* the budget, one of them less bright than an unselected event
RemoverRanOverBudget ==
    /\ pc = "report"
    /\ CountTrue(mask) > RemovalBudget
    /\ \E k, j \in 1..Len(table) :
        WasSelected(k) /\ ~WasSelected(j) /\ intensity[k] < intensity[j]

\* the intensity by which the remover ranks event k (NaN as 0)
Brightness(k) == IF table[k].intensity = NaN THEN 0 ELSE table[k].intensity

\* C7 as claimed: the remover removes the min(budget, number of True)
\* brightest True events, and of True events of equal brightness the one
\* earlier in the table goes first.
RemovesBrightestEarliestFirst ==
    [][pc = "remove" =>
        /\ CountTrue(pedmask) - CountTrue(pedmask')
               = Min(RemovalBudget, CountTrue(pedmask))
        /\ \A k, j \in 1..Len(pedmask) :
            (pedmask[k] /\ ~pedmask'[k] /\ pedmask'[j]) =>
                \/ Brightness(k) > Brightness(j)
                \/ Brightness(k) = Brightness(j) /\ k < j]_vars

\* C7 as amended: the remover removes min(budget, number of True) True
\* events, none of them less bright (NaN as 0) than a True event it keeps;
\* which of several equally bright events at the cut go is left to the
\* order np.argsort gives them.
RemovesBrightest ==
    [][pc = "remove" =>
        /\ CountTrue(pedmask) - CountTrue(pedmask')
               = Min(RemovalBudget, CountTrue(pedmask))
        /\ \A k, j \in 1..Len(pedmask) :
            (pedmask[k] /\ ~pedmask'[k] /\ pedmask'[j]) =>
                Brightness(k) >= Brightness(j)]_vars

\* C7 witness: the remover has removed an event and kept a dimmer one, a
\* NaN one and an equally bright one that is earlier in the table
RemovedBrighterAndLaterOfEqual ==
    /\ pc = "report"
    /\ \E k, j \in 1..Len(table) :
        /\ WasSelected(k) /\ ~pedmask[k] /\ pedmask[j]
        /\ Brightness(k) > Brightness(j)
    /\ \E k, j \in 1..Len(table) :
        /\ WasSelected(k) /\ ~pedmask[k] /\ pedmask[j]
        /\ Brightness(k) = Brightness(j) /\ j < k

\* the grid position of the period loop's latest iteration
LatestPeriodPosition == IF pc = "period" THEN i - 1 ELSE Len(period_step_range)

\* C10 as claimed: after each iteration of the period loop, contents is the
\* histogram of the folded times over the range from 0 to the trial period
\* of that iteration, and the bin counts add up to the number of candidates.
PeriodHistogramCoversFold ==
    ((pc = "period" /\ i > 1) \/ (pc = "phase" /\ phase = 0))
        => /\ contents = Histogram(tmod, nbins,
                  TrialPeriod(period_mean, LatestPeriodPosition) * Scale)
           /\ SeqSum(contents) = Len(timestamps)


\* the positions of the phase grid whose hypothesis has been tried
TriedPhases ==
    IF pc = "phase" THEN 0..(phase - 1)
    ELSE IF PhaseLoopDone \/ reads # {} THEN PhaseGrid
    ELSE {}

\* C11 as claimed: every phase hypothesis tried, and best_phase, is at
\* least 0 and strictly below best_period.
PhasesBelowPeriod ==
    /\ \A k \in TriedPhases :
        0 <= PhaseAt(best_period, k)
        /\ PhaseAt(best_period, k) < best_period * Scale
    /\ best_period > 0 => 0 <= best_phase /\ best_phase < best_period * Scale

\* C11 as amended: every phase hypothesis tried, and best_phase, lies in the
\* closed interval from 0 to best_period; the last hypothesis of the grid is
\* best_period itself.
PhasesUpToPeriod ==
    /\ \A k \in TriedPhases :
        0 <= PhaseAt(best_period, k)
        /\ PhaseAt(best_period, k) <= best_period * Scale
    /\ best_period > 0 => 0 <= best_phase /\ best_phase <= best_period * Scale
    /\ PhaseLoopDone => PhaseAt(best_period, phase) = best_period * Scale

\* C11 witness: find_pedestals has returned with best_phase equal to
\* best_period, and a candidate is selected with it
BestPhaseIsPeriod ==
    /\ pc = "remove"
    /\ best_phase = best_period * Scale
    /\ CountTrue(mask) > 0

\* the window the peak bin p of counts and its in-range neighbours give:
\* first and last bin, each side taken when the neighbour exists and holds
\* more than a tenth of the peak
NeighbourWindow(counts) ==
    LET p == ArgMax(counts)
        left == p > 0 /\ PyGet(counts, p - 1) * 10 > PyGet(counts, p)
        right == p + 1 < Len(counts)
                 /\ PyGet(counts, p + 1) * 10 > PyGet(counts, p)
    IN [peak |-> p,
        first |-> IF left THEN p - 1 ELSE p,
        last |-> IF right THEN p + 1 ELSE p]

\* the acceptance window is the one of NeighbourWindow, and the mask is True
\* exactly for the candidates folded strictly between its outer edges
WindowIsNeighbourWindow ==
    LET w == NeighbourWindow(best_contents)
        min_edge == w.first * best_bins
        max_edge == (w.last + 1) * best_bins
    IN /\ minval = min_edge
       /\ maxval = max_edge
       /\ minval < maxval
       /\ minval <= w.peak * best_bins /\ (w.peak + 1) * best_bins <= maxval
       /\ Len(mask) = Len(tmod)
       /\ \A k \in 1..Len(mask) :
            mask[k] <=> (tmod[k] * nbins > min_edge /\ tmod[k] * nbins < max_edge)

\* C12 as claimed: whenever the window selector has completed, the window is
\* the peak bin extended by at most one bin on each side, each side decided
\* by counts[neighbour] > 0.1 * counts[peak_bin], it contains the peak bin,
\* and a candidate is selected exactly when min_edge < tmod < max_edge.
WindowAroundPeak == Scattered => WindowIsNeighbourWindow

\* C12 outside the wraparound of C5: the same, for the completed selections
\* whose neighbour reads are all at indices within 0..nbins-1
WindowAroundInteriorPeak ==
    (Scattered /\ \A j \in reads : 0 <= j /\ j < nbins)
        => WindowIsNeighbourWindow

\* a completed selection with both neighbour reads in range and a candidate
\* selected
InteriorPeakSelected ==
    /\ Scattered
    /\ \A j \in reads : 0 <= j /\ j < nbins
    /\ CountTrue(mask) > 0


=============================================================================
